---------------------------- MODULE Spec2Model ----------------------------
(***************************************************************************)
(* rust_python_ffi_example: the extern "C" surface of src/lib.rs           *)
(* (fib_slow, fib_seq_results, fib_threaded, fib_threaded_results,         *)
(* drop_vec), the thread fan-out of fib_many, the Rust heap the            *)
(* handed-off Vec<u32> buffers live in, and the command-line program of    *)
(* src/main.rs.  A foreign caller drives the surface one call at a time;   *)
(* inside fib_many the spawned threads interleave freely.                  *)
(*                                                                         *)
(* Spec      a session of calls: who owns which buffer                     *)
(* SpecCall  one call over every small array: values, order, threads       *)
(* SpecFair  one fib_threaded call with fairly scheduled threads           *)
(* SpecMain  one run of main over a small command line                     *)
(***************************************************************************)
EXTENDS Integers, Sequences, FiniteSets, Bags, TLC

\* ------------------------------------------------------------- bounds ----
MaxLen == 3         \* longest input array of a single call
MaxN == 10          \* largest argument of a direct fib_slow call
MaxCalls == 2       \* calls the caller makes in one session
MaxSessionLen == 2  \* longest input array of a session
MaxArgs == 2        \* arguments on the command line of main

\* ---------------------------------------------------- program constants --
HalfWord == 65536          \* 2^16: a u32 is two of these
Null == 0                  \* the null pointer tested by is_null()
Dangling == 4              \* NonNull::dangling() of a u32: its alignment

\* the `data` argument: the address of the caller's array, in memory the
\* caller's own allocator manages
CallerAddr == 1024

\* the least n whose Fibonacci number exceeds u32::MAX
FirstOverflow == 48

\* the heap blocks a run of `limit` calls can need: one per descriptor in
\* flight plus the two buffers of a running fib_many
HeapAddrs(limit) == {8 * k : k \in 1..(limit + 1)}
Threads == 1..MaxLen
FibArgs == 0..MaxN \cup {FirstOverflow}
\* element values of the caller's arrays: some whose Fibonacci numbers fit
\* u32, and arrays in which some do not
InputValues == {5, 6, 7}
OverflowValues == {5, FirstOverflow}
Arrays ==
    UNION {[1..k -> InputValues] \cup [1..k -> OverflowValues] : k \in 0..MaxLen}
SessionArrays ==
    {[i \in 1..k |-> 5] : k \in 0..MaxSessionLen} \cup {<<FirstOverflow>>}

VARIABLES
    pc,         \* position of the calling thread
    fn,         \* extern function being (or last) executed
    foreign,    \* the caller's array behind `data`
    length,     \* the `length` argument
    heap,       \* memory: address -> block (Rust heap and caller's array)
    results,    \* the local `results: Vec<u32>` of a boundary function
    vec,        \* the local `vec: VectorU32`
    ret,        \* value returned by the last completed call
    inflight,   \* descriptors the caller holds and has not reclaimed
    arcRefs,    \* strong count of the Arc<Mutex<Vec<u32>>> in fib_many
    shared,     \* the Vec inside the Mutex (ptr, len, cap)
    lock,       \* holder of the Mutex: 0 none, i a task, -1 the caller
    spawned,    \* handles created so far by the map/collect of line 45
    joined,     \* handles joined so far by the loop of line 53
    tpc,        \* position of each spawned task
    tn,         \* each task's captured `n`
    tres,       \* each task's local `res`
    order,      \* the tasks in the order in which they acquired the Mutex
    dropArgs,   \* (data_ptr, len, cap) of the running drop_vec
    dvec,       \* the local `vec` of drop_vec
    releases,   \* deallocations performed by the running drop_vec
    dropOrigin, \* the function that produced the descriptor being dropped
    liveAtCall, \* the descriptor's buffer was allocated when drop_vec began
    ub,         \* an invalid deallocation happened
    calls,      \* calls made so far
    argv        \* the process arguments of main

vars == <<pc, fn, foreign, length, heap, results, vec, ret, inflight,
          arcRefs, shared, lock, spawned, joined, tpc, tn, tres, order,
          dropArgs, dvec, releases, dropOrigin, liveAtCall, ub, calls,
          argv>>

manyVars == <<arcRefs, shared, lock, spawned, joined, tpc, tn, tres, order>>
dropVars == <<dropArgs, dvec, releases, dropOrigin, liveAtCall>>

\* --------------------------------------------------------------- heap ----
FreeBlock == [live |-> FALSE, cap |-> 0, elems |-> <<>>]
NoVec == [ptr |-> Null, len |-> 0, cap |-> 0, owned |-> FALSE]
NoDesc == [data |-> Null, len |-> 0, cap |-> 0]
NoRet == [kind |-> "none"]

\* alloc::alloc of a buffer of `cap` u32 at address a
Alloc(h, a, cap, elems) ==
    [h EXCEPT ![a] = [live |-> TRUE, cap |-> cap, elems |-> elems]]

\* alloc::dealloc of the buffer at address a
Dealloc(h, a) == [h EXCEPT ![a] = FreeBlock]

\* p is the address of a live block of capacity cap
IsAllocated(h, p, cap) == p \in DOMAIN h /\ h[p].live /\ h[p].cap = cap

\* a deallocation of something that is no live block of that capacity
InvalidFree(h, p, cap) == cap > 0 /\ ~IsAllocated(h, p, cap)

\* <Vec<u32> as Drop>::drop: a Vec of capacity 0 owns no buffer
VecDropHeap(h, p, cap) ==
    IF cap > 0 /\ p \in DOMAIN h THEN Dealloc(h, p) ELSE h

VecDropCount(cap) == IF cap > 0 THEN 1 ELSE 0

\* the addresses Rust's allocator can hand out
RustFree(h) == {a \in DOMAIN h \ {CallerAddr} : ~h[a].live}

\* the caller's array as it lies behind `data`: nothing for an empty one
CallerBlock(arr) ==
    IF Len(arr) = 0 THEN FreeBlock
    ELSE [live |-> TRUE, cap |-> Len(arr), elems |-> arr]

\* the caller puts its array in place before a call
CallerStore(h, arr) == [h EXCEPT ![CallerAddr] = CallerBlock(arr)]

\* ------------------------------------------------------------ fib_slow ---
\* the commented-out fib_fast of lines 30-40, were it swapped in: it starts
\* from a = b = 1 and so returns the next Fibonacci number
RECURSIVE FastPair(_)
FastPair(n) ==
    IF n = 0 THEN <<1, 1>>
    ELSE LET p == FastPair(n - 1) IN <<p[2], p[1] + p[2]>>

fib_fast(n) == FastPair(n)[1]

\* a u32 as its two 16-bit halves; `ovf` records that an addition on the
\* way to the value exceeded u32::MAX
U32Of(x) == [hi |-> x \div HalfWord, lo |-> x % HalfWord, ovf |-> FALSE]

\* line 27: `+` on u32, as a build without overflow checks computes it
AddU32(a, b) ==
    LET lo == a.lo + b.lo
        hi == a.hi + b.hi + (lo \div HalfWord)
    IN [hi |-> hi % HalfWord, lo |-> lo % HalfWord,
        ovf |-> a.ovf \/ b.ovf \/ hi >= HalfWord]

\* lines 25-28 for the arguments 0..n: entry k + 1 is fib_slow(k).  Each
\* entry is what the recursion makes of the two before it; the recursion
\* itself recomputes them, 2^n times over for the larger arguments, and here
\* each is computed once (t is bound to the table so far).
RECURSIVE FibSlowTable(_)
FibSlowTable(n) ==
    IF n = 0 THEN <<U32Of(0)>>
    ELSE IF n = 1 THEN <<U32Of(0), U32Of(1)>>
    ELSE CHOOSE r \in {Append(t, AddU32(t[n], t[n - 1])) :
                           t \in {FibSlowTable(n - 1)}} : TRUE

\* fib_slow of every argument up to the first that overflows
FibSlowValues == FibSlowTable(FirstOverflow)

fib_slow_u32(n) == FibSlowValues[n + 1]

\* an addition of fib_slow(n) overflows: a build with overflow checks
\* panics there
fib_slow_overflows(n) == fib_slow_u32(n).ovf

\* the value fib_slow(n) returns
fib_slow(n) == fib_slow_u32(n).lo + HalfWord * fib_slow_u32(n).hi

\* `x as u32` of a usize: the low 32 bits
AsU32(x) == (x % HalfWord) + HalfWord * ((x \div HalfWord) % HalfWord)

\* the results collected back to front
MapFibReversed(nums) ==
    [i \in 1..Len(nums) |-> fib_slow(nums[Len(nums) + 1 - i])]

\* nums.iter().map(|&n| fib_slow(n))
MapFib(nums) == [i \in 1..Len(nums) |-> fib_slow(nums[i])]

\* the input taken over as an owning Vec: Vec::from_raw_parts(data, n, n)
vec_from_raw_parts(p, n) == [ptr |-> p, len |-> n, cap |-> n, owned |-> TRUE]

\* slice::from_raw_parts(data, length): a borrowed view, nothing to drop
slice_from_raw_parts(p, n) == [ptr |-> p, len |-> n, cap |-> n, owned |-> FALSE]

\* the local `nums` of a boundary function
NumsSlice == slice_from_raw_parts(CallerAddr, length)

\* the elements read through `nums`
Nums == SubSeq(heap[CallerAddr].elems, 1, length)

\* an empty Vec represented by a null pointer, as a C array often is
EmptyVecNull == [ptr |-> Null, len |-> 0, cap |-> 0, owned |-> TRUE]

\* a Vec that holds nothing has no buffer: a dangling, non-null pointer
EmptyVec == [ptr |-> Dangling, len |-> 0, cap |-> 0, owned |-> TRUE]

\* a descriptor that leaves the capacity out
FromVecNoCap(v) == [data |-> v.ptr, len |-> v.len, cap |-> 0]

\* VectorU32::from_vec
from_vec(v) == [data |-> v.ptr, len |-> v.len, cap |-> v.cap]

\* the forget left out: `results` is still owned at the end of the scope
MemForgetOmitted(v) == v

\* mem::forget(results)
MemForget(v) == [v EXCEPT !.owned = FALSE]

\* a scope end that leaks the Vec instead of dropping it
ScopeDropLeak(h, v) == h

\* end of scope of a local Vec: dropped unless moved out or forgotten
ScopeDropHeap(h, v) == IF v.owned THEN VecDropHeap(h, v.ptr, v.cap) ELSE h



\* ---------------------------------------------------------------- Init ---
ManyIdle ==
    /\ arcRefs = 0
    /\ shared = NoVec
    /\ lock = 0
    /\ spawned = 0
    /\ joined = 0
    /\ tpc = [i \in Threads |-> "idle"]
    /\ tn = [i \in Threads |-> 0]
    /\ tres = [i \in Threads |-> 0]
    /\ order = <<>>

InitCommon(limit) ==
    /\ foreign = <<>>
    /\ length = 0
    /\ heap = [a \in HeapAddrs(limit) \cup {CallerAddr} |-> FreeBlock]
    /\ results = NoVec
    /\ vec = NoDesc
    /\ ret = NoRet
    /\ inflight = {}
    /\ ManyIdle
    /\ dropArgs = NoDesc
    /\ dvec = NoVec
    /\ releases = 0
    /\ dropOrigin = "none"
    /\ liveAtCall = FALSE
    /\ ub = FALSE
    /\ calls = 0

InitOver(limit) ==
    /\ pc = "idle"
    /\ fn = "none"
    /\ argv = <<>>
    /\ InitCommon(limit)

\* the locals and threads of the previous call are gone
ManyReset ==
    /\ arcRefs' = 0
    /\ shared' = NoVec
    /\ lock' = 0
    /\ spawned' = 0
    /\ joined' = 0
    /\ tpc' = [i \in Threads |-> "idle"]
    /\ tn' = [i \in Threads |-> 0]
    /\ tres' = [i \in Threads |-> 0]
    /\ order' = <<>>

DropReset ==
    /\ dropArgs' = NoDesc
    /\ dvec' = NoVec
    /\ releases' = 0
    /\ dropOrigin' = "none"
    /\ liveAtCall' = FALSE

\* the caller enters an extern function that takes (data, length); it
\* passes the true length of its array
Enter(f, arr, first, limit) ==
    /\ pc = "idle"
    /\ calls < limit
    /\ calls' = calls + 1
    /\ fn' = f
    /\ foreign' = arr
    /\ length' = Len(arr)
    /\ pc' = first
    /\ ret' = NoRet
    /\ results' = NoVec
    /\ vec' = NoDesc
    /\ heap' = CallerStore(heap, arr)
    /\ ManyReset
    /\ DropReset
    /\ UNCHANGED <<inflight, ub, argv>>

\* ------------------------------------------------------ fib_slow (FFI) ---
fib_slow_call(n, limit) ==
    /\ pc = "idle"
    /\ calls < limit
    /\ calls' = calls + 1
    /\ fn' = "fib_slow"
    /\ foreign' = <<>>
    /\ length' = 0
    /\ heap' = CallerStore(heap, <<>>)
    /\ ret' = [kind |-> "u32", arg |-> n, val |-> fib_slow(n)]
    /\ ManyReset
    /\ DropReset
    /\ UNCHANGED <<pc, results, vec, inflight, ub, argv>>

\* fib_slow in a build with overflow checks: the panic of line 27 inside the
\* extern function ends the run
fib_slow_panic(n, limit) ==
    /\ pc = "idle"
    /\ calls < limit
    /\ fib_slow_overflows(n)
    /\ calls' = calls + 1
    /\ fn' = "fib_slow"
    /\ foreign' = <<>>
    /\ length' = 0
    /\ heap' = CallerStore(heap, <<>>)
    /\ ret' = NoRet
    /\ pc' = "aborted"
    /\ ManyReset
    /\ DropReset
    /\ UNCHANGED <<results, vec, inflight, ub, argv>>

\* ----------------------------------------------------- fib_seq_results ---
fib_seq_results_call(arr, limit) ==
    Enter("fib_seq_results", arr, "seq_collect", limit)

\* line 64: collect() of an exact-size iterator allocates len elements,
\* nothing for an empty one
fib_seq_results_collect ==
    /\ pc = "seq_collect"
    /\ LET out == MapFib(Nums) IN
       IF Len(out) = 0
       THEN /\ results' = EmptyVec
            /\ heap' = heap
       ELSE \E a \in RustFree(heap) :
            /\ heap' = Alloc(heap, a, Len(out), out)
            /\ results' = [ptr |-> a, len |-> Len(out), cap |-> Len(out),
                           owned |-> TRUE]
    /\ pc' = "seq_from_vec"
    /\ UNCHANGED <<fn, foreign, length, vec, ret, inflight, manyVars,
                   dropVars, ub, calls, argv>>

\* line 65 (and 85)
BoundaryFromVec(here, next) ==
    /\ pc = here
    /\ vec' = from_vec(results)
    /\ pc' = next
    /\ UNCHANGED <<fn, foreign, length, heap, results, ret, inflight,
                   manyVars, dropVars, ub, calls, argv>>

\* line 68 (and 88)
BoundaryForget(here, next) ==
    /\ pc = here
    /\ results' = MemForget(results)
    /\ pc' = next
    /\ UNCHANGED <<fn, foreign, length, heap, vec, ret, inflight,
                   manyVars, dropVars, ub, calls, argv>>

\* lines 69-70 (and 89-90): `vec` is returned by value, the locals go out
\* of scope, the caller now holds the descriptor
BoundaryReturn(here) ==
    /\ pc = here
    /\ heap' = ScopeDropHeap(ScopeDropHeap(heap, results), NumsSlice)
    /\ ub' = (ub \/ (results.owned /\ InvalidFree(heap, results.ptr, results.cap)))
    /\ ret' = [kind |-> "VectorU32", desc |-> vec]
    /\ inflight' = inflight \cup {[desc |-> vec, by |-> fn]}
    /\ results' = NoVec
    /\ vec' = NoDesc
    /\ pc' = "idle"
    /\ UNCHANGED <<fn, foreign, length, manyVars, dropVars, calls, argv>>

fib_seq_results_from_vec == BoundaryFromVec("seq_from_vec", "seq_forget")
fib_seq_results_forget == BoundaryForget("seq_forget", "seq_return")
fib_seq_results_return == BoundaryReturn("seq_return")

\* ------------------------------------------------------------ fib_many ---
\* a push that puts the element in front of the others
PushHeapFront(h, v, x) == [h EXCEPT ![v.ptr].elems = <<x>> \o @]

\* Vec::push within capacity: the element is written behind the last one
PushHeap(h, v, x) == [h EXCEPT ![v.ptr].elems = Append(@, x)]
\* a push that writes the element but leaves the length alone
PushVecNoLen(v) == v

PushVec(v) == [v EXCEPT !.len = @ + 1]

\* the elements a Vec header describes
Elems(h, v) == IF v.cap > 0 THEN SubSeq(h[v.ptr].elems, 1, v.len) ELSE <<>>

\* an Arc whose last clone does not drop what it holds
ArcDropLeak(h, refs, v) == h

\* dropping one Arc clone: the last one drops the Mutex and its Vec
ArcDropHeap(h, refs, v) == IF refs = 1 THEN VecDropHeap(h, v.ptr, v.cap) ELSE h
ArcDropVec(refs, v) == IF refs = 1 THEN NoVec ELSE v

\* a join that does not wait for the thread
FinishedNoWait(st) == TRUE

\* a join whose result is discarded: h.join().ok() without the expect
JoinNeverFails(st) == FALSE

\* JoinHandle::join returns once the thread has terminated
Finished(st) == st \in {"done", "panicked"}

\* h.join().ok().expect("could not join"): Err when the thread panicked
JoinFails(st) == st = "panicked"

\* line 44: Arc::new(Mutex::new(Vec::with_capacity(many.len())))
fib_many_new ==
    /\ pc = "many_new"
    /\ IF length = 0
       THEN /\ shared' = EmptyVec
            /\ heap' = heap
       ELSE \E a \in RustFree(heap) :
            /\ heap' = Alloc(heap, a, length, <<>>)
            /\ shared' = [ptr |-> a, len |-> 0, cap |-> length, owned |-> TRUE]
    /\ arcRefs' = 1
    /\ lock' = 0
    /\ spawned' = 0
    /\ joined' = 0
    /\ tpc' = [i \in Threads |-> "idle"]
    /\ tn' = [i \in Threads |-> 0]
    /\ tres' = [i \in Threads |-> 0]
    /\ order' = <<>>
    /\ pc' = IF length = 0 THEN "many_collect" ELSE "many_spawn"
    /\ UNCHANGED <<fn, foreign, length, results, vec, ret, inflight,
                   dropVars, ub, calls, argv>>

\* lines 45-52: one iteration of the map: clone the Arc, spawn the thread
fib_many_spawn ==
    /\ pc = "many_spawn"
    /\ spawned < length
    /\ spawned' = spawned + 1
    /\ arcRefs' = arcRefs + 1
    /\ tpc' = [tpc EXCEPT ![spawned + 1] = "start"]
    /\ tn' = [tn EXCEPT ![spawned + 1] = Nums[spawned + 1]]
    /\ pc' = IF spawned + 1 = length THEN "many_join" ELSE "many_spawn"
    /\ UNCHANGED <<fn, foreign, length, heap, results, vec, ret, inflight,
                   shared, lock, joined, tres, dropVars, ub, calls, order, argv>>

\* line 48
task_compute(i) ==
    /\ pc # "aborted"
    /\ tpc[i] = "start"
    /\ tres' = [tres EXCEPT ![i] = fib_slow(tn[i])]
    /\ tpc' = [tpc EXCEPT ![i] = "computed"]
    /\ UNCHANGED <<pc, fn, foreign, length, heap, results, vec, ret, inflight,
                   arcRefs, shared, lock, spawned, joined, tn, dropVars, ub,
                   calls, order, argv>>

\* line 48 in a build with overflow checks: fib_slow panics, before the
\* closure takes the lock; unwinding drops its Arc.  No step panics while
\* the guard is held, so the Mutex is never poisoned.
task_panic(i) ==
    /\ pc # "aborted"
    /\ tpc[i] = "start"
    /\ fib_slow_overflows(tn[i])
    /\ tpc' = [tpc EXCEPT ![i] = "panicked"]
    /\ heap' = ArcDropHeap(heap, arcRefs, shared)
    /\ shared' = ArcDropVec(arcRefs, shared)
    /\ arcRefs' = arcRefs - 1
    /\ UNCHANGED <<pc, fn, foreign, length, results, vec, ret, inflight,
                   lock, spawned, joined, tn, tres, dropVars, ub, calls, order, argv>>

\* a Mutex that excludes nobody
MutexAlwaysFree(l) == TRUE

\* Mutex::lock returns only when nobody holds the Mutex
MutexFree(l) == l = 0

\* line 49: results.lock().unwrap() blocks while the Mutex is held
task_lock(i) ==
    /\ pc # "aborted"
    /\ tpc[i] = "computed"
    /\ MutexFree(lock)
    /\ lock' = i
    /\ tpc' = [tpc EXCEPT ![i] = "locked"]
    /\ order' = Append(order, i)
    /\ UNCHANGED <<pc, fn, foreign, length, heap, results, vec, ret, inflight,
                   arcRefs, shared, spawned, joined, tn, tres, dropVars, ub,
                   calls, argv>>

\* line 50
task_push(i) ==
    /\ pc # "aborted"
    /\ tpc[i] = "locked"
    /\ heap' = PushHeap(heap, shared, tres[i])
    /\ shared' = PushVec(shared)
    /\ tpc' = [tpc EXCEPT ![i] = "pushed"]
    /\ UNCHANGED <<pc, fn, foreign, length, results, vec, ret, inflight,
                   arcRefs, lock, spawned, joined, tn, tres, dropVars, ub,
                   calls, order, argv>>

\* line 51: the MutexGuard is dropped first
task_unlock(i) ==
    /\ pc # "aborted"
    /\ tpc[i] = "pushed"
    /\ lock' = 0
    /\ tpc' = [tpc EXCEPT ![i] = "unlocked"]
    /\ UNCHANGED <<pc, fn, foreign, length, heap, results, vec, ret, inflight,
                   arcRefs, shared, spawned, joined, tn, tres, dropVars, ub,
                   calls, order, argv>>

\* line 51: then the captured Arc clone, and the thread terminates
task_exit(i) ==
    /\ pc # "aborted"
    /\ tpc[i] = "unlocked"
    /\ tpc' = [tpc EXCEPT ![i] = "done"]
    /\ heap' = ArcDropHeap(heap, arcRefs, shared)
    /\ shared' = ArcDropVec(arcRefs, shared)
    /\ arcRefs' = arcRefs - 1
    /\ UNCHANGED <<pc, fn, foreign, length, results, vec, ret, inflight,
                   lock, spawned, joined, tn, tres, dropVars, ub, calls, order, argv>>

\* lines 53-55: join the next handle; a panicked thread makes expect panic,
\* and the panic leaves fib_many and ends the run
fib_many_join ==
    /\ pc = "many_join"
    /\ joined < length
    /\ Finished(tpc[joined + 1])
    /\ IF JoinFails(tpc[joined + 1])
       THEN /\ pc' = "aborted"
            /\ joined' = joined
       ELSE /\ joined' = joined + 1
            /\ pc' = IF joined + 1 = length THEN "many_collect" ELSE "many_join"
    /\ UNCHANGED <<fn, foreign, length, heap, results, vec, ret, inflight,
                   arcRefs, shared, lock, spawned, tpc, tn, tres, dropVars,
                   ub, calls, order, argv>>

\* line 56: lock, copy the elements into a new Vec, unlock
fib_many_collect ==
    /\ pc = "many_collect"
    /\ MutexFree(lock)
    /\ LET out == Elems(heap, shared) IN
       IF Len(out) = 0
       THEN /\ results' = EmptyVec
            /\ heap' = heap
       ELSE \E a \in RustFree(heap) :
            /\ heap' = Alloc(heap, a, Len(out), out)
            /\ results' = [ptr |-> a, len |-> Len(out), cap |-> Len(out),
                           owned |-> TRUE]
    /\ pc' = "many_return"
    /\ UNCHANGED <<fn, foreign, length, vec, ret, inflight, manyVars,
                   dropVars, ub, calls, argv>>

\* lines 57-58: the new Vec is moved out, the caller's Arc is dropped
fib_many_return ==
    /\ pc = "many_return"
    /\ heap' = ArcDropHeap(heap, arcRefs, shared)
    /\ shared' = ArcDropVec(arcRefs, shared)
    /\ arcRefs' = arcRefs - 1
    /\ pc' = IF fn = "fib_threaded" THEN "thr_return"
             ELSE IF fn = "main" THEN "main_print"
             ELSE "thrres_from_vec"
    /\ UNCHANGED <<fn, foreign, length, results, vec, ret, inflight,
                   lock, spawned, joined, tpc, tn, tres, dropVars, ub, calls, order, argv>>

\* -------------------------------------------------------- fib_threaded ---
fib_threaded_call(arr, limit) ==
    Enter("fib_threaded", arr, "many_new", limit)

\* lines 77-78: the count is returned, `results` is dropped
fib_threaded_return ==
    /\ pc = "thr_return"
    /\ ret' = [kind |-> "u32", arg |-> length, val |-> AsU32(results.len)]
    /\ heap' = ScopeDropHeap(ScopeDropHeap(heap, results), NumsSlice)
    /\ ub' = (ub \/ (results.owned /\ InvalidFree(heap, results.ptr, results.cap)))
    /\ results' = NoVec
    /\ pc' = "idle"
    /\ UNCHANGED <<fn, foreign, length, vec, inflight, manyVars, dropVars,
                   calls, argv>>

\* ------------------------------------------------ fib_threaded_results ---
fib_threaded_results_call(arr, limit) ==
    Enter("fib_threaded_results", arr, "many_new", limit)

fib_threaded_results_from_vec == BoundaryFromVec("thrres_from_vec", "thrres_forget")
fib_threaded_results_forget == BoundaryForget("thrres_forget", "thrres_return")
fib_threaded_results_return == BoundaryReturn("thrres_return")

\* ------------------------------------------------------------ drop_vec ---
\* the caller hands back a descriptor it holds, or misuses the call with a
\* null pointer
drop_vec_call(e) ==
    /\ pc = "idle"
    /\ fn' = "drop_vec"
    /\ foreign' = <<>>
    /\ length' = 0
    /\ dropArgs' = e.desc
    /\ dvec' = NoVec
    /\ releases' = 0
    /\ dropOrigin' = e.by
    /\ liveAtCall' = IsAllocated(heap, e.desc.data, e.desc.cap)
    /\ inflight' = inflight \ {e}
    /\ ret' = NoRet
    /\ pc' = "drop_assert"
    /\ heap' = CallerStore(heap, <<>>)
    /\ ManyReset
    /\ UNCHANGED <<results, vec, ub, calls, argv>>

\* the assertion left out
AssertOmitted(p) == TRUE

\* line 95: assert!(!data_ptr.is_null()); a failed assertion panics inside
\* the extern function and ends the run
AssertNonNull(p) == p # Null

drop_vec_assert ==
    /\ pc = "drop_assert"
    /\ pc' = IF AssertNonNull(dropArgs.data) THEN "drop_from_raw" ELSE "aborted"
    /\ UNCHANGED <<fn, foreign, length, heap, results, vec, ret, inflight,
                   manyVars, dropVars, ub, calls, argv>>

\* line 96: Vec::from_raw_parts
drop_vec_from_raw ==
    /\ pc = "drop_from_raw"
    /\ dvec' = [ptr |-> dropArgs.data, len |-> dropArgs.len,
                cap |-> dropArgs.cap, owned |-> TRUE]
    /\ pc' = "drop_return"
    /\ UNCHANGED <<fn, foreign, length, heap, results, vec, ret, inflight,
                   manyVars, dropArgs, releases, dropOrigin, liveAtCall,
                   ub, calls, argv>>

\* line 100: `vec` goes out of scope and is dropped
drop_vec_return ==
    /\ pc = "drop_return"
    /\ heap' = ScopeDropHeap(heap, dvec)
    /\ ub' = (ub \/ (dvec.owned /\ InvalidFree(heap, dvec.ptr, dvec.cap)))
    /\ releases' = releases + (IF dvec.owned THEN VecDropCount(dvec.cap) ELSE 0)
    /\ dvec' = NoVec
    /\ ret' = [kind |-> "unit"]
    /\ pc' = "idle"
    /\ UNCHANGED <<fn, foreign, length, results, vec, inflight, manyVars,
                   dropArgs, dropOrigin, liveAtCall, calls, argv>>

\* misuse: a null pointer with any len and cap
NullArgs ==
    {[desc |-> [data |-> Null, len |-> l, cap |-> c], by |-> "caller"] :
        l \in 0..MaxLen, c \in 0..MaxLen}

NextOver(arrays, limit) ==
    \/ pc = "idle" /\ \E n \in FibArgs : fib_slow_call(n, limit)
    \/ pc = "idle" /\ \E n \in FibArgs : fib_slow_panic(n, limit)
    \/ pc = "idle" /\ \E arr \in arrays : fib_seq_results_call(arr, limit)
    \/ fib_seq_results_collect
    \/ fib_seq_results_from_vec
    \/ fib_seq_results_forget
    \/ fib_seq_results_return
    \/ pc = "idle" /\ \E arr \in arrays : fib_threaded_call(arr, limit)
    \/ pc = "idle" /\ \E arr \in arrays : fib_threaded_results_call(arr, limit)
    \/ fib_many_new
    \/ fib_many_spawn
    \/ \E i \in Threads : task_compute(i)
    \/ \E i \in Threads : task_panic(i)
    \/ \E i \in Threads : task_lock(i)
    \/ \E i \in Threads : task_push(i)
    \/ \E i \in Threads : task_unlock(i)
    \/ \E i \in Threads : task_exit(i)
    \/ fib_many_join
    \/ fib_many_collect
    \/ fib_many_return
    \/ fib_threaded_return
    \/ fib_threaded_results_from_vec
    \/ fib_threaded_results_forget
    \/ fib_threaded_results_return
    \/ pc = "idle" /\ \E e \in inflight \cup NullArgs : drop_vec_call(e)
    \/ drop_vec_assert
    \/ drop_vec_from_raw
    \/ drop_vec_return

\* a session of up to MaxCalls calls over one array of each length
Init == InitOver(MaxCalls)
Next == NextOver(SessionArrays, MaxCalls)
Spec == Init /\ [][Next]_vars

\* one call over every array, then the reclamation of what it returned
InitCall == InitOver(1)
NextCall == NextOver(Arrays, 1)
SpecCall == InitCall /\ [][NextCall]_vars

\* ------------------------------------------------------------- main.rs ---
\* an argument is a sequence of characters; BadByte stands for a byte that
\* is no valid Unicode
BadByte == "<FF>"
ProgName == <<"f", "i", "b">>
ArgStrings ==
    {<<"5">>, <<"+", "6">>, <<"0", "7">>, <<"4", "8">>, <<"-", "5">>,
     <<"5", "x">>, <<"+">>, <<>>, <<BadByte>>}
ArgLists ==
    UNION {{<<p>> \o a : p \in {ProgName, <<"7">>}, a \in [1..k -> ArgStrings]} :
               k \in 0..MaxArgs}

DigitChars == <<"0", "1", "2", "3", "4", "5", "6", "7", "8", "9">>
IsDigit(c) == \E d \in 1..10 : DigitChars[d] = c
DigitValue(c) == (CHOOSE d \in 1..10 : DigitChars[d] = c) - 1

ParseErr == [ok |-> FALSE, val |-> 0]

\* the digit loop of u32::from_str: checked_mul(10), checked_add(digit)
RECURSIVE ParseDigits(_, _)
ParseDigits(s, acc) ==
    IF s = <<>> THEN [ok |-> TRUE, val |-> acc]
    ELSE IF ~IsDigit(Head(s)) THEN ParseErr
    ELSE LET v == acc * 10 + DigitValue(Head(s)) IN
         IF (v \div HalfWord) >= HalfWord THEN ParseErr
         ELSE ParseDigits(Tail(s), v)

\* line 8: s.parse::<u32>(): digits after an optional `+`, nothing else
ParseU32(s) ==
    IF s = <<>> THEN ParseErr
    ELSE IF Head(s) = "+"
         THEN (IF Len(s) = 1 THEN ParseErr ELSE ParseDigits(Tail(s), 0))
         ELSE ParseDigits(s, 0)

\* lines 8-11: map(parse), filter(is_ok), map(unwrap), collect
MapParse(av) == [i \in 1..Len(av) |-> ParseU32(av[i])]
IsOk(res) == res.ok
Unwrap(res) == res.val
CollectArgs(av) ==
    LET oks == SelectSeq(MapParse(av), IsOk)
    IN [i \in 1..Len(oks) |-> Unwrap(oks[i])]

\* env::args() yields each argument as a String
ValidUnicode(s) == \A i \in 1..Len(s) : s[i] # BadByte

InitMain ==
    /\ pc = "main_start"
    /\ fn = "main"
    /\ argv \in ArgLists
    /\ InitCommon(1)

\* line 8: the iterator of env::args() panics on an argument that is not
\* valid Unicode
main_args_panic ==
    /\ pc = "main_start"
    /\ \E i \in 1..Len(argv) : ~ValidUnicode(argv[i])
    /\ pc' = "aborted"
    /\ UNCHANGED <<fn, foreign, length, heap, results, vec, ret, inflight,
                   manyVars, dropVars, ub, calls, argv>>

\* lines 8-11, then line 12 up to the call: `args` is the caller's array of
\* fib_many
main_collect ==
    /\ pc = "main_start"
    /\ \A i \in 1..Len(argv) : ValidUnicode(argv[i])
    /\ LET args == CollectArgs(argv) IN
        /\ foreign' = args
        /\ length' = Len(args)
        /\ heap' = CallerStore(heap, args)
    /\ pc' = "many_new"
    /\ UNCHANGED <<fn, results, vec, ret, inflight, manyVars, dropVars, ub,
                   calls, argv>>

\* line 12: the result is printed; it and `args` are dropped as main ends
main_print ==
    /\ pc = "main_print"
    /\ ret' = [kind |-> "printed", out |-> Elems(heap, results)]
    /\ heap' = CallerStore(ScopeDropHeap(heap, results), <<>>)
    /\ ub' = (ub \/ (results.owned /\ InvalidFree(heap, results.ptr, results.cap)))
    /\ results' = NoVec
    /\ pc' = "exited"
    /\ UNCHANGED <<fn, foreign, length, vec, inflight, manyVars, dropVars,
                   calls, argv>>

ManySteps ==
    \/ fib_many_new
    \/ fib_many_spawn
    \/ \E i \in Threads : task_compute(i)
    \/ \E i \in Threads : task_panic(i)
    \/ \E i \in Threads : task_lock(i)
    \/ \E i \in Threads : task_push(i)
    \/ \E i \in Threads : task_unlock(i)
    \/ \E i \in Threads : task_exit(i)
    \/ fib_many_join
    \/ fib_many_collect
    \/ fib_many_return

\* one run of the command-line program
NextMain ==
    \/ main_args_panic
    \/ main_collect
    \/ ManySteps
    \/ main_print

SpecMain == InitMain /\ [][NextMain]_vars

\* --------------------------------------------------- fair scheduling ---
\* the steps of the thread that called fib_threaded
CallerStep ==
    \/ fib_many_new
    \/ fib_many_spawn
    \/ fib_many_join
    \/ fib_many_collect
    \/ fib_many_return
    \/ fib_threaded_return

\* the steps of the thread spawned for element i
TaskStep(i) ==
    \/ task_compute(i)
    \/ task_panic(i)
    \/ task_lock(i)
    \/ task_push(i)
    \/ task_unlock(i)
    \/ task_exit(i)

FairArrays == UNION {[1..k -> OverflowValues] : k \in 0..MaxLen}

NextFair ==
    \/ pc = "idle" /\ \E arr \in FairArrays : fib_threaded_call(arr, 1)
    \/ CallerStep
    \/ \E i \in Threads : TaskStep(i)

\* the operating system runs every thread that can take a step
Fairness ==
    /\ WF_vars(CallerStep)
    /\ \A i \in Threads : WF_vars(TaskStep(i))

\* one call of fib_threaded with its threads scheduled fairly
SpecFair == InitCall /\ [][NextFair]_vars /\ Fairness

\* ============================================================== claims ===
\* the Fibonacci numbers by their defining iteration, independent of fib_slow
RECURSIVE FibPair(_)
FibPair(n) ==
    IF n = 0 THEN <<0, 1>>
    ELSE LET p == FibPair(n - 1) IN <<p[2], p[1] + p[2]>>

FibRef(n) == FibPair(n)[1]

\* the Fibonacci numbers exactly, as three base-2^16 digits, lowest first
AddDigits(a, b) ==
    LET d1 == a[1] + b[1]
        d2 == a[2] + b[2] + (d1 \div HalfWord)
        d3 == a[3] + b[3] + (d2 \div HalfWord)
    IN <<d1 % HalfWord, d2 % HalfWord, d3>>

RECURSIVE ExactTable(_)
ExactTable(n) ==
    IF n = 0 THEN << <<0, 0, 0>> >>
    ELSE IF n = 1 THEN << <<0, 0, 0>>, <<1, 0, 0>> >>
    ELSE CHOOSE r \in {Append(t, AddDigits(t[n], t[n - 1])) :
                           t \in {ExactTable(n - 1)}} : TRUE

ExactValues == ExactTable(FirstOverflow)
ExactFib(n) == ExactValues[n + 1]
ExceedsU32(n) == ExactFib(n)[3] > 0
LowWord(n) == ExactFib(n)[1] + HalfWord * ExactFib(n)[2]

\* fib(n) of the scalar contract: the Fibonacci number where it fits u32,
\* what is left of it in 32 bits where it does not
FibValue(n) == IF ExceedsU32(n) THEN LowWord(n) ELSE FibRef(n)

SeqToBag(q) ==
    [x \in {q[i] : i \in 1..Len(q)} |-> Cardinality({i \in 1..Len(q) : q[i] = x})]

Returned(f) == pc = "idle" /\ fn = f /\ ret.kind # "none"
DropDone == Returned("drop_vec")
Buffers == {a \in DOMAIN heap \ {CallerAddr} : heap[a].live}
\* the part of memory Rust's allocator manages
RustHeap(h) == [a \in DOMAIN h \ {CallerAddr} |-> h[a]]

\* ---- C1 ----------------------------------------------------------------
\* C1: the buffer of every descriptor in flight is allocated, with the
\* descriptor's capacity and length, and no step changes, moves or frees it
\* while the descriptor stays in flight.
InFlightAllocated ==
    \A e \in inflight :
        e.desc.cap > 0 =>
            /\ IsAllocated(heap, e.desc.data, e.desc.cap)
            /\ Len(heap[e.desc.data].elems) = e.desc.len

InFlightUntouched ==
    \A e \in inflight \cap inflight' :
        e.desc.cap > 0 => heap'[e.desc.data] = heap[e.desc.data]

C1_InFlightStorageKept == []InFlightAllocated /\ [][InFlightUntouched]_vars

\* a whole fib_threaded call, with its thread exits and its frees, has run
\* while a descriptor of fib_threaded_results was in flight
C1_Witness ==
    /\ Returned("fib_threaded")
    /\ length > 0
    /\ \E e \in inflight :
        /\ e.by = "fib_threaded_results"
        /\ e.desc.cap > 0
        /\ IsAllocated(heap, e.desc.data, e.desc.cap)

\* ---- C2 ----------------------------------------------------------------
\* C2 as stated: every completed drop_vec of a returned descriptor found the
\* buffer allocated, freed it, and performed exactly one release.
C2_Original ==
    (DropDone /\ dropOrigin # "caller") =>
        /\ ~ub
        /\ liveAtCall
        /\ releases = 1
        /\ ~IsAllocated(heap, dropArgs.data, dropArgs.cap)

\* C2 amended: drop_vec of an unmodified returned descriptor never hits the
\* assertion and never frees invalidly; a descriptor of a non-empty result
\* has its buffer allocated before, freed after, by exactly one release; a
\* descriptor of an empty result (cap = 0) owns no buffer and none is
\* released.
C2_RoundTrip ==
    /\ (fn = "drop_vec" /\ dropOrigin # "caller") => (pc # "aborted" /\ ~ub)
    /\ (DropDone /\ dropOrigin # "caller" /\ dropArgs.cap > 0) =>
            /\ liveAtCall
            /\ releases = 1
            /\ ~heap[dropArgs.data].live
    /\ (DropDone /\ dropOrigin # "caller" /\ dropArgs.cap = 0) =>
            /\ ~liveAtCall
            /\ releases = 0

C2_Witness ==
    /\ DropDone
    /\ dropOrigin = "fib_threaded_results"
    /\ dropArgs.cap = MaxSessionLen
    /\ releases = 1
    /\ inflight # {}

\* ---- C3 ----------------------------------------------------------------
\* C3: what fib_many returns has the length of the input and, as a multiset,
\* the values of fib at the input's elements.
FibManyReturned == pc \in {"thr_return", "thrres_from_vec", "main_print"}

C3_FibManyMultiset ==
    FibManyReturned =>
        /\ results.len = length
        /\ SeqToBag(Elems(heap, results)) =
               SeqToBag([i \in 1..length |-> FibValue(foreign[i])])

\* a result in another order than the input, with a repeated value
C3_Witness ==
    /\ FibManyReturned
    /\ foreign = <<5, 6, 5>>
    /\ Elems(heap, results) = <<8, 5, 5>>

\* ---- C4 ----------------------------------------------------------------
\* C4: the descriptor fib_seq_results returns has the input's length and at
\* each position the value of fib at the input's element there.
C4_SeqOrderPreserved ==
    Returned("fib_seq_results") =>
        /\ ret.desc.len = length
        /\ ret.desc.len > 0 => IsAllocated(heap, ret.desc.data, ret.desc.cap)
        /\ \A i \in 1..length :
               heap[ret.desc.data].elems[i] = FibValue(foreign[i])

C4_Witness ==
    /\ Returned("fib_seq_results")
    /\ foreign = <<5, 6, 7>>
    /\ heap[ret.desc.data].elems = <<5, 8, 13>>

\* ---- C5 ----------------------------------------------------------------
\* C5: a drop_vec called with a null pointer goes from the assertion straight
\* to the abort: no Vec is reconstructed, nothing is released, the heap is
\* as it was, and the call never returns.
NullDrop == fn = "drop_vec" /\ dropArgs.data = Null

NullDropState ==
    NullDrop =>
        /\ pc \in {"drop_assert", "aborted"}
        /\ dvec = NoVec
        /\ releases = 0
        /\ ~ub

NullDropStep ==
    /\ NullDrop' => (RustHeap(heap') = RustHeap(heap) /\ inflight' \subseteq inflight)
    /\ (NullDrop /\ pc = "drop_assert") => pc' = "aborted"

C5_NullPointerFailsFast == []NullDropState /\ [][NullDropStep]_vars

C5_Witness ==
    /\ NullDrop
    /\ pc = "aborted"
    /\ dropArgs.cap > 0
    /\ dropArgs.len > 0
    /\ Buffers # {}

\* ---- C6 ----------------------------------------------------------------
\* C6: fib_seq_results over no elements returns a descriptor with len = 0 and
\* a non-null pointer, and drop_vec of that descriptor passes the assertion,
\* returns, and releases nothing.
C6_EmptyRoundTrip ==
    /\ (Returned("fib_seq_results") /\ length = 0) =>
            (ret.desc.len = 0 /\ ret.desc.data # Null)
    /\ (fn = "drop_vec" /\ dropOrigin = "fib_seq_results" /\ dropArgs.len = 0) =>
            /\ pc # "aborted"
            /\ ~ub
            /\ releases = 0

\* the empty descriptor was dropped while another buffer was allocated
C6_Witness ==
    /\ DropDone
    /\ dropOrigin = "fib_seq_results"
    /\ dropArgs.len = 0
    /\ Buffers # {}

\* ---- C7 ----------------------------------------------------------------
\* C7: fib_threaded returns the length it was passed.
C7_ThreadedCount == Returned("fib_threaded") => ret.val = length

C7_Witness ==
    /\ Returned("fib_threaded")
    /\ ret.val = MaxLen
    /\ foreign[1] # foreign[2]

\* ---- C8 ----------------------------------------------------------------
\* C8: where the Fibonacci number fits u32, fib_slow(n) is n for n in {0, 1},
\* the sum of its two predecessors for n >= 2, and the Fibonacci number of n
\* (0, 1, 1, 2, 3, ..., fib(10) = 55).
FibExamples == <<0, 1, 1, 2, 3, 5, 8, 13, 21, 34, 55>>

C9_ReadAfterJoinAll ==
    pc \in {"many_collect", "many_return"} =>
        /\ spawned = length
        /\ joined = length
        /\ \A i \in 1..length : tpc[i] = "done"
        /\ shared.len = length
        /\ lock = 0

C9_Witness ==
    /\ pc = "many_collect"
    /\ length = MaxLen
    /\ \A i \in 1..length : tpc[i] = "done"

\* ---- C10 ---------------------------------------------------------------
\* C10: once a task of fib_many has panicked, the call is still spawning or
\* joining, or it has aborted: it never reads the container and never
\* returns a sequence.
TaskFailed == \E i \in Threads : tpc[i] = "panicked"

C10_JoinFailureFatal ==
    TaskFailed =>
        /\ pc \in {"many_spawn", "many_join", "aborted"}
        /\ ret = NoRet
        /\ results = NoVec

\* the call aborted although other tasks had appended their results
C10_Witness ==
    /\ TaskFailed
    /\ pc = "aborted"
    /\ shared.len > 0
    /\ shared.len < length

\* ---- C11 ---------------------------------------------------------------
\* C11: when fib_threaded has returned, the Arc is gone, the only buffers
\* still allocated are those of descriptors handed out by earlier calls, and
\* no step of the call gave the caller a descriptor.
InFlightBuffers == {e.desc.data : e \in {x \in inflight : x.desc.cap > 0}}

ThreadedLeftNothing ==
    Returned("fib_threaded") =>
        /\ ret.kind = "u32"
        /\ arcRefs = 0
        /\ shared = NoVec
        /\ results = NoVec
        /\ Buffers = InFlightBuffers

ThreadedHandsNothing == fn' = "fib_threaded" => inflight' = inflight

C11_ThreadedNoTransfer ==
    []ThreadedLeftNothing /\ [][ThreadedHandsNothing]_vars

C11_Witness ==
    /\ Returned("fib_threaded")
    /\ length = MaxSessionLen
    /\ Cardinality(inflight) = 1
    /\ Cardinality(Buffers) = 1

\* ---- C12 ---------------------------------------------------------------
\* C12: from the moment the destructor is suppressed, the descriptor holds
\* the pointer, length and capacity of the result sequence, which is the
\* allocated buffer; the descriptor returned is that one, with len <= cap and
\* len the input length.
AtForget == pc \in {"seq_forget", "thrres_forget"}

DescriptorOfResult ==
    /\ AtForget =>
            /\ vec.data = results.ptr
            /\ vec.len = results.len
            /\ vec.cap = results.cap
            /\ vec.len = Len(Elems(heap, results))
            /\ results.cap > 0 => IsAllocated(heap, results.ptr, results.cap)
    /\ (Returned("fib_seq_results") \/ Returned("fib_threaded_results")) =>
            /\ ret.desc.len <= ret.desc.cap
            /\ ret.desc.len = length
            /\ ret.desc.data # Null

DescriptorReturnedAsBuilt ==
    (AtForget /\ pc' = "idle") \/ (pc \in {"seq_return", "thrres_return"} /\ pc' = "idle")
        => ret'.desc = vec

ForgetKeepsFields ==
    (AtForget /\ ~AtForget') =>
        /\ results'.ptr = results.ptr
        /\ results'.len = results.len
        /\ results'.cap = results.cap
        /\ vec' = vec

C12_DescriptorFields ==
    /\ []DescriptorOfResult
    /\ [][DescriptorReturnedAsBuilt /\ ForgetKeepsFields]_vars

C12_Witness ==
    /\ Returned("fib_threaded_results")
    /\ ret.desc.len = MaxLen
    /\ ret.desc.cap = MaxLen
    /\ IsAllocated(heap, ret.desc.data, ret.desc.cap)

\* ---- C13 ---------------------------------------------------------------
\* C13: throughout a call of a boundary function and after its return the
\* caller's array is allocated with the contents the caller put there, no
\* step of the call writes or frees it, and no Vec or descriptor of the
\* producing side points at it.
BoundaryFns == {"fib_seq_results", "fib_threaded", "fib_threaded_results"}

InputIntact ==
    fn \in BoundaryFns =>
        /\ heap[CallerAddr].elems = foreign
        /\ Len(foreign) > 0 => heap[CallerAddr].live
        /\ length = Len(foreign)

InputNotHandedOut ==
    /\ \A e \in inflight : e.desc.data # CallerAddr
    /\ results.ptr # CallerAddr
    /\ shared.ptr # CallerAddr
    /\ vec.data # CallerAddr
    /\ ret.kind = "VectorU32" => ret.desc.data # CallerAddr

InputFrame ==
    (pc # "idle" /\ fn \in BoundaryFns) =>
        /\ foreign' = foreign
        /\ heap'[CallerAddr] = heap[CallerAddr]

C13_InputBorrowed ==
    [](InputIntact /\ InputNotHandedOut) /\ [][InputFrame]_vars

C13_Witness ==
    /\ Returned("fib_threaded_results")
    /\ length = MaxLen
    /\ heap[CallerAddr].live
    /\ heap[CallerAddr].elems = foreign
    /\ IsAllocated(heap, ret.desc.data, MaxLen)

\* ---- C14 ---------------------------------------------------------------
\* C14: when the Fibonacci number of the argument exceeds u32::MAX, fib_slow
\* does not return what is left of it in 32 bits.
C14_NoSilentWrap ==
    (Returned("fib_slow") /\ ExceedsU32(ret.arg)) => ret.val # LowWord(ret.arg)

\* 48 is the first argument that overflows; a build with overflow checks
\* never returns from it
C14_OverflowBoundary ==
    /\ ExceedsU32(FirstOverflow)
    /\ ~ExceedsU32(FirstOverflow - 1)
    /\ fib_slow_overflows(FirstOverflow)
    /\ \A n \in 0..(FirstOverflow - 1) : ~fib_slow_overflows(n)

\* ---- C15 ---------------------------------------------------------------
\* C15: what main passes to fib_many is the numerals among the process
\* arguments, as numbers and in their order, and no argument makes the run
\* fail: an abort of main comes from a failed task only.
NumeralValue ==
    (<<"5">> :> 5) @@ (<<"+", "6">> :> 6) @@ (<<"0", "7">> :> 7) @@
    (<<"4", "8">> :> 48) @@ (<<"7">> :> 7)

RECURSIVE ExpectedArgs(_)
ExpectedArgs(av) ==
    IF av = <<>> THEN <<>>
    ELSE (IF Head(av) \in DOMAIN NumeralValue
          THEN <<NumeralValue[Head(av)]>> ELSE <<>>) \o ExpectedArgs(Tail(av))

MainPassesNumerals ==
    (fn = "main" /\ pc = "many_new") =>
        /\ Nums = ExpectedArgs(argv)
        /\ length = Len(ExpectedArgs(argv))

MainNeverFailsOnArgument == (fn = "main" /\ pc = "aborted") => TaskFailed

C15_ArgsFiltered == MainPassesNumerals /\ MainNeverFailsOnArgument

\* ---- C16 ---------------------------------------------------------------
\* C16: the shared container holds the results of the tasks in the order in
\* which the tasks acquired the lock, and so does the sequence fib_many
\* returns; an execution that returns them in another order than the
\* input's exists (the witness).
InLockOrder(k) == FibValue(foreign[order[k]])

OutputInLockOrder ==
    /\ (arcRefs > 0 /\ shared.cap > 0) =>
            /\ shared.len <= Len(order)
            /\ Elems(heap, shared) = [k \in 1..shared.len |-> InLockOrder(k)]
    /\ FibManyReturned =>
            /\ Len(order) = length
            /\ Elems(heap, results) = [k \in 1..length |-> InLockOrder(k)]

C16_LockOrderNotInputOrder == OutputInLockOrder

\* the input's order reversed
C16_Witness ==
    /\ FibManyReturned
    /\ foreign = <<5, 6, 7>>
    /\ order = <<3, 2, 1>>
    /\ Elems(heap, results) = <<13, 8, 5>>
    /\ Elems(heap, results) # [i \in 1..length |-> FibValue(foreign[i])]

\* ---- C17 ---------------------------------------------------------------
\* C17: at most one task holds the lock, and it is the task between its
\* acquisition and its release; no task acquires twice; a task computes
\* before it holds the lock, and while it holds it its only steps are its one
\* push and the release; the container's length is the number of tasks that
\* have pushed and never exceeds the input's length.
Holders == {i \in Threads : tpc[i] \in {"locked", "pushed"}}
Pushed == {i \in Threads : tpc[i] \in {"pushed", "unlocked", "done"}}

LockDiscipline ==
    /\ Cardinality(Holders) <= 1
    /\ \A i \in Threads : (lock = i) <=> (i \in Holders)
    /\ lock \in Threads \cup {0}
    /\ \A j, k \in 1..Len(order) : j # k => order[j] # order[k]
    /\ \A i \in Threads :
           (\E k \in 1..Len(order) : order[k] = i) <=>
               tpc[i] \in {"locked", "pushed", "unlocked", "done"}
    /\ arcRefs > 0 =>
           /\ shared.len = Cardinality(Pushed)
           /\ shared.len <= length
           /\ shared.cap = length

LockSteps ==
    \A i \in Threads :
        /\ (tpc[i] = "start" /\ tpc'[i] # "start") => (lock # i /\ lock' # i)
        /\ (lock = i /\ tpc'[i] # tpc[i]) =>
               \/ /\ tpc[i] = "locked"
                  /\ tpc'[i] = "pushed"
                  /\ lock' = i
                  /\ shared'.len = shared.len + 1
                  /\ tres' = tres
               \/ /\ tpc[i] = "pushed"
                  /\ tpc'[i] = "unlocked"
                  /\ lock' = 0
                  /\ shared' = shared
        /\ (tpc'[i] = "done" /\ tpc[i] # "done") => (lock # i /\ lock' # i)

C17_SingleLockHolder == []LockDiscipline /\ [][LockSteps]_vars

\* one task holds the lock for its push while another waits for it and a
\* third has already pushed
C17_Witness ==
    /\ pc = "many_join"
    /\ Cardinality(Holders) = 1
    /\ \E i \in Threads : tpc[i] = "computed"
    /\ shared.len = 1
    /\ Cardinality(Pushed) = 1

\* ---- C18 ---------------------------------------------------------------
\* C18: under fair scheduling a call of fib_many that has begun returns;
\* every spawned task runs to its end, a task that wants the lock gets it,
\* and the final read gets the lock.
C18_EveryCallReturns ==
    /\ (pc = "many_new") ~> FibManyReturned
    /\ \A i \in Threads : (tpc[i] = "start") ~> (tpc[i] = "done")
    /\ \A i \in Threads : (tpc[i] = "computed") ~> (tpc[i] = "locked")
    /\ (pc = "many_collect") ~> (pc = "many_return")

\* what does hold: the call returns or, after a task's panic, ends in the
\* abort of the join; a task ends or panics, or the process is gone
C18_ReturnsOrAborts ==
    /\ (pc = "many_new") ~> (FibManyReturned \/ pc = "aborted")
    /\ \A i \in Threads :
           (tpc[i] = "start") ~> (tpc[i] \in {"done", "panicked"} \/ pc = "aborted")
    /\ \A i \in Threads :
           (tpc[i] = "computed") ~> (tpc[i] = "locked" \/ pc = "aborted")
    /\ (pc = "many_collect") ~> (pc = "many_return")

\* with no overflowing element the call does return
C18_ReturnsWithoutOverflow ==
    (pc = "many_new" /\ \A k \in 1..length : ~ExceedsU32(foreign[k]))
        ~> FibManyReturned

\* a call that has not ended can always take a step
C18_NoDeadlock == (pc \notin {"idle", "aborted"}) => ENABLED NextFair

\* ---- C19 ---------------------------------------------------------------
\* C19 as stated: when fib_threaded_results has returned, exactly one buffer
\* allocated by the call is still allocated, the one of the returned
\* descriptor.
NewBuffers ==
    Buffers \ {e.desc.data :
                  e \in {x \in inflight \ {[desc |-> ret.desc, by |-> fn]} :
                             x.desc.cap > 0}}

C19_Original ==
    Returned("fib_threaded_results") =>
        /\ Cardinality(NewBuffers) = 1
        /\ NewBuffers = {ret.desc.data}

\* C19: the sequence fib_many returns is a buffer of its own with the
\* container's elements; returning drops the last Arc and frees the
\* container and leaves the copy alone; when fib_threaded_results has
\* returned, what the call allocated and left allocated is the buffer of the
\* returned descriptor: one buffer for a non-empty input, none for an empty
\* one, whose descriptor has capacity 0.
CopyDistinct ==
    pc = "many_return" =>
        /\ arcRefs = 1
        /\ results.len = shared.len
        /\ Elems(heap, results) = Elems(heap, shared)
        /\ results.cap > 0 =>
               /\ results.ptr # shared.ptr
               /\ IsAllocated(heap, results.ptr, results.cap)
               /\ IsAllocated(heap, shared.ptr, shared.cap)

OnlyDescriptorLeft ==
    Returned("fib_threaded_results") =>
        /\ arcRefs = 0
        /\ shared = NoVec
        /\ NewBuffers = (IF ret.desc.cap > 0 THEN {ret.desc.data} ELSE {})
        /\ ret.desc.cap > 0 <=> length > 0

ContainerReleased ==
    (pc = "many_return" /\ pc' # "many_return") =>
        /\ arcRefs' = 0
        /\ shared.cap > 0 => ~heap'[shared.ptr].live
        /\ results.cap > 0 => heap'[results.ptr] = heap[results.ptr]

C19_FreshCopyHandedOff ==
    [](CopyDistinct /\ OnlyDescriptorLeft) /\ [][ContainerReleased]_vars

\* the second call of a session returns while the first call's descriptor
\* is in flight
C19_Witness ==
    /\ Returned("fib_threaded_results")
    /\ ret.desc.cap = MaxSessionLen
    /\ Cardinality(inflight) = 2
    /\ Cardinality(Buffers) = 2
    /\ Cardinality(NewBuffers) = 1

=============================================================================
